---- MODULE Spec2Model ----
(***************************************************************************)
(* Matrix Portal Moon Clock (src/Matrix_Portal_Moon_Clock/code.py): the     *)
(* start-up fetches of the two EarthData records, and the main loop's      *)
(* periodic clock sync, PERIOD rollover, next-event scan and the           *)
(* DIURNAL_EVENT dispatch; and the Matrix Quote Board                      *)
(* (src/Matrix_Quote_Board/code.py): its choice of the next quote.         *)
(*                                                                         *)
(* Time is local epoch seconds (the UTC offset is ignored by parse_time).  *)
(* A struct_time is the 9-tuple <<year, mon, mday, hour, min, sec, wday,   *)
(* yday, isdst>>.  The model's calendar is a single long month: day d of   *)
(* the epoch is 1970-01-(d+1).                                             *)
(***************************************************************************)
EXTENDS Integers, Sequences, FiniteSets, TLC

\* ---- configurable settings (code.py 51-57) and module constants ----
HOURS_BETWEEN_SYNC == 1
SECONDS_PER_HOUR == 3600
REFRESH_DELAY == 10
TODAY == 0
TOMORROW == 1
TODAY_RISE == "u2191"
TODAY_SET == "u2193"
TOMORROW_RISE == "u219F"
TOMORROW_SET == "u21A1"
\* Python's None, for an optional epoch time (mktime is never negative here)
None == -1
\* seconds in the 24 hours added at line 347
SECONDS_PER_DAY == 24 * 3600
\* `for _ in range(5)` and `time.sleep(15)` of EarthData.__init__
RETRIES == 5
RETRY_SLEEP == 15
\* the seed offset of the next-event scan (lines 405, 414)
FORCE_FIRST_MATCH == 100000

\* ---- bounds of the model ----
\* the run is cut off when the clock would pass MaxClock
MaxClock == 90200
\* largest error of the on-board clock that a time sync corrects, in seconds
MaxSkew == 30
\* how far ahead an RTC can be that the start-up sync failed to set
RtcAhead == 3700
\* what a successful sync adds to the clock
Skews == {-RtcAhead, -MaxSkew, 0, MaxSkew}
\* local epoch times at which the board can be switched on: a few minutes
\* before a midnight, and just after it
Starts == {86000, 86410}

VARIABLES
    clock,          \* the on-board RTC: what time.time() returns
    DATETIME,       \* struct_time of the last assignment to DATETIME
    LAST_SYNC,
    PERIOD,         \* [TODAY, TOMORROW] -> record
    DIURNAL_EVENT,
    NOW,            \* epoch seconds read at the top of the loop body
    AGE,            \* the moon's age as the fraction num / den
    FRAME,
    NEXT_MOON_EVENT, MOON_RISEN, NEXT_SUN_EVENT, SUN_RISEN,
    LANDSCAPE_MODE,
    face,           \* CLOCK_FACE[CLOCK_GLYPH] and CLOCK_FACE[CLOCK_EVENT]
    pc,             \* position of the script
    error,          \* the uncaught exception that ended the script, or "none"
    tries,          \* per EarthData call site: attempts made by its retry loop
    response,       \* what the last NETWORK.fetch_data call did
    console,        \* the lines printed by the last step
    \* the quote board
    quote_index, color_index, last_quote_index, last_color_index,
    last_update,
    monotonic,      \* what time.monotonic() returns
    board           \* the text and colour the matrix shows

\* the variables of the moon clock and those of the quote board
clockVars == <<clock, DATETIME, LAST_SYNC, PERIOD, DIURNAL_EVENT, NOW, AGE, FRAME,
               NEXT_MOON_EVENT, MOON_RISEN, NEXT_SUN_EVENT, SUN_RISEN,
               LANDSCAPE_MODE, face, pc, error, tries, response, console>>
quoteVars == <<quote_index, color_index, last_quote_index, last_color_index,
               last_update, monotonic, board>>

vars == <<clockVars, quoteVars>>

\* ---- time utilities ----

\* time.localtime(secs)
localtime(t) ==
    <<1970, 1, 1 + (t \div SECONDS_PER_DAY), (t % SECONDS_PER_DAY) \div 3600,
      (t % 3600) \div 60, t % 60, -1, -1, -1>>

\* time.mktime(struct_time)
mktime(st) == (st[3] - 1) * SECONDS_PER_DAY + st[4] * 3600 + st[5] * 60 + st[6]

\* the server's ISO timestring for epoch time t, already split into its six
\* numeric fields (YYYY-MM-DDTHH:MM:SS)
timestring(t) ==
    <<1970, 1, 1 + (t \div SECONDS_PER_DAY), (t % SECONDS_PER_DAY) \div 3600,
      (t % 3600) \div 60, t % 60>>

parse_time(ts, is_dst) ==
    <<ts[1], ts[2], ts[3], ts[4], ts[5], ts[6], -1, -1, is_dst>>

\* update_time returns the struct_time it wrote to the RTC, and nothing else
update_time(time_data) == parse_time(time_data, -1)

\* `a, b = value`: the number of targets the value can be unpacked into
CanUnpack(value, targets) == Len(value) = targets

\* ---- EarthData ----

\* an EarthData object whose __init__ assigned every attribute
EarthData(age, midnight, sunrise, sunset, moonrise, moonset) ==
    [tag |-> "EarthData", age |-> age, midnight |-> midnight,
     sunrise |-> sunrise, sunset |-> sunset,
     moonrise |-> moonrise, moonset |-> moonset]

\* an EarthData object whose __init__ fell out of the retry loop: it has no
\* attributes at all
BareEarthData ==
    [tag |-> "bare", age |-> None, midnight |-> None,
     sunrise |-> None, sunset |-> None, moonrise |-> None, moonset |-> None]

\* PERIOD = [None, None]
NoneEntry ==
    [tag |-> "None", age |-> None, midnight |-> None,
     sunrise |-> None, sunset |-> None, moonrise |-> None, moonset |-> None]

HasAttrs(obj) == obj.tag = "EarthData"

\* What the MET Norway service can answer for the calendar day of struct_time
\* st: the moon phase (percent) at that day's midnight and the day's rise/set
\* times, any of which may be missing.
Almanac ==
    { [age |-> 97, sunrise |-> 6 * 3600, sunset |-> 18 * 3600,
       moonrise |-> 1800, moonset |-> 13 * 3600],
      [age |-> 2, sunrise |-> 7 * 3600, sunset |-> 17 * 3600,
       moonrise |-> 9 * 3600, moonset |-> 23 * 3600 + 1800],
      [age |-> 50, sunrise |-> None, sunset |-> None,
       moonrise |-> None, moonset |-> None] }

At(midnight, offset) == IF offset = None THEN None ELSE midnight + offset

ServerRecords(st) ==
    LET midnight == mktime(parse_time(<<st[1], st[2], st[3], 0, 0, 0>>, -1))
    IN { EarthData(a.age, midnight, At(midnight, a.sunrise), At(midnight, a.sunset),
                   At(midnight, a.moonrise), At(midnight, a.moonset)) : a \in Almanac }

\* ---- helpers of the main loop ----

\* SyncDue with the comparison written as >=
SyncDue_Inclusive(now, last_sync) == now - last_sync >= HOURS_BETWEEN_SYNC * SECONDS_PER_HOUR

\* NOW - LAST_SYNC > HOURS_BETWEEN_SYNC * SECONDS_PER_HOUR
SyncDue(now, last_sync) == now - last_sync > HOURS_BETWEEN_SYNC * SECONDS_PER_HOUR

\* LAST_SYNC += 30 * SECONDS_PER_HOUR
Backoff(last_sync) == last_sync + 30 * SECONDS_PER_HOUR

\* NOW >= PERIOD[TOMORROW].midnight
Expired(now, period) == now >= period[TOMORROW].midnight

\* the parameters of EarthData.__init__ besides self, and the arguments the
\* rollover passes to it
InitParams == <<"datetime", "utc_offset">>
RolloverArgs == <<"time.localtime()", "24", "UTC_OFFSET">>

\* NextSlot with the last branch resetting the counter to 7
NextSlot_ResetTo7(d) == IF d = 1 THEN 7 ELSE d - 1

\* the DIURNAL_EVENT -= 1 / DIURNAL_EVENT = 8 of the dispatch chain
NextSlot(d) == IF d = 1 THEN 8 ELSE d - 1

\* Age without the reduction modulo 1.0
Age_NoModulo(today_age, tomorrow_age, elapsed, length) ==
    LET delta == IF today_age < tomorrow_age THEN tomorrow_age - today_age
                 ELSE tomorrow_age + 100 - today_age
    IN [num |-> today_age * length + delta * elapsed, den |-> 100 * length]

\* AGE (lines 379-392) as an exact fraction: the two ages are hundredths,
\* RATIO is elapsed / length, and `% 1.0` is the reduction modulo den
Age(today_age, tomorrow_age, elapsed, length) ==
    LET delta == IF today_age < tomorrow_age THEN tomorrow_age - today_age
                 ELSE tomorrow_age + 100 - today_age
    IN [num |-> (today_age * length + delta * elapsed) % (100 * length),
        den |-> 100 * length]

\* FRAME = int(AGE * 100) % 100
Frame(age) == ((age.num * 100) \div age.den) % 100

Truthy(x) == x # None /\ x # 0

\* ScanDay without the `>= NOW` tests
ScanDay_AnyTime(st, rise, set, now) ==
    LET afterRise == IF Truthy(rise) /\ st.next >= rise
                     THEN [next |-> rise, risen |-> "False"] ELSE st
    IN IF Truthy(set) /\ afterRise.next >= set
       THEN [next |-> set, risen |-> "True"] ELSE afterRise

\* ScanDay with `>` in place of the first `>=` of each test
ScanDay_Strict(st, rise, set, now) ==
    LET afterRise == IF Truthy(rise) /\ st.next > rise /\ rise >= now
                     THEN [next |-> rise, risen |-> "False"] ELSE st
    IN IF Truthy(set) /\ afterRise.next > set /\ set >= now
       THEN [next |-> set, risen |-> "True"] ELSE afterRise

\* one `for DAY in reversed(PERIOD)` pass over a body's rise and set times
ScanDay(st, rise, set, now) ==
    LET afterRise == IF Truthy(rise) /\ st.next >= rise /\ rise >= now
                     THEN [next |-> rise, risen |-> "False"] ELSE st
    IN IF Truthy(set) /\ afterRise.next >= set /\ set >= now
       THEN [next |-> set, risen |-> "True"] ELSE afterRise

\* Scan that keeps the flag it started with
Scan_StaleRisen(period, now, risen, rise, set) ==
    LET seed == [next |-> period[TOMORROW].midnight + FORCE_FIRST_MATCH, risen |-> risen]
        tmw == ScanDay(seed, period[TOMORROW][rise], period[TOMORROW][set], now)
    IN [ScanDay(tmw, period[TODAY][rise], period[TODAY][set], now) EXCEPT !.risen = risen]

\* the two `for DAY in reversed(PERIOD)` loops: tomorrow's record, then today's
Scan(period, now, risen, rise, set) ==
    LET seed == [next |-> period[TOMORROW].midnight + FORCE_FIRST_MATCH, risen |-> risen]
        tmw == ScanDay(seed, period[TOMORROW][rise], period[TOMORROW][set], now)
    IN ScanDay(tmw, period[TODAY][rise], period[TODAY][set], now)

\* Dispatch with the moon's slots of today before the sun's
Dispatch_MoonFirst(d, period) ==
    CASE d = 8 -> [name |-> "Moonrise today", event |-> period[TODAY].moonrise, icon |-> TODAY_RISE]
      [] d = 7 -> [name |-> "Moonset today", event |-> period[TODAY].moonset, icon |-> TODAY_SET]
      [] d = 6 -> [name |-> "Sunrise today", event |-> period[TODAY].sunrise, icon |-> TODAY_RISE]
      [] d = 5 -> [name |-> "Sunset today", event |-> period[TODAY].sunset, icon |-> TODAY_SET]
      [] d = 4 -> [name |-> "Sunrise tomorrow", event |-> period[TOMORROW].sunrise, icon |-> TOMORROW_RISE]
      [] d = 3 -> [name |-> "Sunset tomorrow", event |-> period[TOMORROW].sunset, icon |-> TOMORROW_SET]
      [] d = 2 -> [name |-> "Moonrise tomorrow", event |-> period[TOMORROW].moonrise, icon |-> TOMORROW_RISE]
      [] d = 1 -> [name |-> "Moonset tomorrow", event |-> period[TOMORROW].moonset, icon |-> TOMORROW_SET]

\* the (name, event, icon) of the display_event call for each DIURNAL_EVENT
Dispatch(d, period) ==
    CASE d = 8 -> [name |-> "Sunrise today", event |-> period[TODAY].sunrise, icon |-> TODAY_RISE]
      [] d = 7 -> [name |-> "Sunset today", event |-> period[TODAY].sunset, icon |-> TODAY_SET]
      [] d = 6 -> [name |-> "Moonrise today", event |-> period[TODAY].moonrise, icon |-> TODAY_RISE]
      [] d = 5 -> [name |-> "Moonset today", event |-> period[TODAY].moonset, icon |-> TODAY_SET]
      [] d = 4 -> [name |-> "Sunrise tomorrow", event |-> period[TOMORROW].sunrise, icon |-> TOMORROW_RISE]
      [] d = 3 -> [name |-> "Sunset tomorrow", event |-> period[TOMORROW].sunset, icon |-> TOMORROW_SET]
      [] d = 2 -> [name |-> "Moonrise tomorrow", event |-> period[TOMORROW].moonrise, icon |-> TOMORROW_RISE]
      [] d = 1 -> [name |-> "Moonset tomorrow", event |-> period[TOMORROW].moonset, icon |-> TOMORROW_SET]

\* name.startswith("Sun")
StartsWithSun(name) ==
    name \in {"Sunrise today", "Sunset today", "Sunrise tomorrow", "Sunset tomorrow"}

\* the hour_string of display_event; "unbound" when neither branch assigns it
HourString(hour, portrait) ==
    IF hour > 12 /\ portrait THEN hour - 12
    ELSE IF hour > 0 THEN hour
    ELSE None

\* ---- the state machine ----

FetchSites == {"fetch_today", "fetch_tomorrow", "fetch_rollover"}

\* an uncaught exception ends the script
Raise(e) == pc' = "crashed" /\ error' = e

\* the quote board's script is not running
QuoteBoardOff ==
    /\ quote_index = 0 /\ color_index = 0
    /\ last_quote_index = 0 /\ last_color_index = 0
    /\ last_update = 0 /\ monotonic = 0
    /\ board = [text |-> "off", color |-> "off"]

Init ==
    /\ clock \in Starts
    /\ DATETIME = localtime(clock)
    /\ LAST_SYNC = mktime(DATETIME)
    /\ PERIOD = [i \in {TODAY, TOMORROW} |-> NoneEntry]
    /\ DIURNAL_EVENT = 8
    /\ NOW = clock
    /\ AGE = [num |-> None, den |-> None]
    /\ FRAME = None
    /\ NEXT_MOON_EVENT = None /\ MOON_RISEN = "unbound"
    /\ NEXT_SUN_EVENT = None /\ SUN_RISEN = "unbound"
    /\ LANDSCAPE_MODE \in BOOLEAN
    /\ face = [glyph |-> "x", body |-> "none", text |-> <<12, 0>>]
    /\ pc = "fetch_today"
    /\ error = "none"
    /\ tries = [s \in FetchSites |-> 0]
    /\ response = [url |-> "none", status |-> "none"]
    /\ console = <<>>
    /\ QuoteBoardOff

\* the struct_time each EarthData call site passes as `datetime`
FetchDate(site) ==
    CASE site = "fetch_today" -> DATETIME
      [] site = "fetch_tomorrow" -> localtime(mktime(DATETIME) + 24 * 3600)
      [] site = "fetch_rollover" -> localtime(clock)

FetchSlot(site) == IF site = "fetch_today" THEN TODAY ELSE TOMORROW

AfterFetch(site) ==
    CASE site = "fetch_today" -> "fetch_tomorrow"
      [] site = "fetch_tomorrow" -> "loop"
      [] site = "fetch_rollover" -> "compute"

\* FetchAttemptReturns without the `return`: the loop goes on after a
\* successful pass
FetchAttemptReturns_NoReturn ==
    /\ pc \in FetchSites
    /\ \E r \in ServerRecords(FetchDate(pc)) :
         PERIOD' = [PERIOD EXCEPT ![FetchSlot(pc)] = r]
    /\ tries' = [tries EXCEPT ![pc] = @ + 1]
    /\ response' = [url |-> "sunrise", status |-> "ok"]
    /\ console' = <<"Fetching moon data via for: ">>
    /\ pc' = IF tries'[pc] = RETRIES THEN AfterFetch(pc) ELSE pc
    /\ UNCHANGED <<AGE, FRAME, quoteVars>>
    /\ UNCHANGED <<clock, DATETIME, LAST_SYNC, DIURNAL_EVENT, NOW, NEXT_MOON_EVENT,
                   MOON_RISEN, NEXT_SUN_EVENT, SUN_RISEN, LANDSCAPE_MODE, face, error>>

\* one pass of the retry loop whose try block runs to its `return`
FetchAttemptReturns ==
    /\ pc \in FetchSites
    /\ \E r \in ServerRecords(FetchDate(pc)) :
         PERIOD' = [PERIOD EXCEPT ![FetchSlot(pc)] = r]
    /\ tries' = [tries EXCEPT ![pc] = @ + 1]
    /\ response' = [url |-> "sunrise", status |-> "ok"]
    /\ console' = <<"Fetching moon data via for: ">>
    /\ pc' = AfterFetch(pc)
    /\ UNCHANGED <<AGE, FRAME, quoteVars>>
    /\ UNCHANGED <<clock, DATETIME, LAST_SYNC, DIURNAL_EVENT, NOW, NEXT_MOON_EVENT,
                   MOON_RISEN, NEXT_SUN_EVENT, SUN_RISEN, LANDSCAPE_MODE, face, error>>

\* one pass of the retry loop whose try block raises: the handler prints and
\* sleeps; after the last pass the loop ends and __init__ returns
FetchAttemptRaises ==
    /\ pc \in FetchSites
    /\ clock + RETRY_SLEEP <= MaxClock
    /\ tries' = [tries EXCEPT ![pc] = @ + 1]
    /\ response' = [url |-> "sunrise", status |-> "error"]
    /\ console' = <<"Fetching moon data via for: ", "Fetching moon data via for: error">>
    /\ clock' = clock + RETRY_SLEEP
    /\ IF tries'[pc] = RETRIES
       THEN /\ PERIOD' = [PERIOD EXCEPT ![FetchSlot(pc)] = BareEarthData]
            /\ pc' = AfterFetch(pc)
       ELSE UNCHANGED <<PERIOD, pc>>
    /\ UNCHANGED <<AGE, FRAME, quoteVars>>
    /\ UNCHANGED <<DATETIME, LAST_SYNC, DIURNAL_EVENT, NOW, NEXT_MOON_EVENT,
                   MOON_RISEN, NEXT_SUN_EVENT, SUN_RISEN, LANDSCAPE_MODE, face, error>>

\* TickNoSync that restarts the sync interval at every loop body
TickNoSync_Resets ==
    /\ pc = "loop"
    /\ NOW' = clock
    /\ ~SyncDue(NOW', LAST_SYNC)
    /\ LAST_SYNC' = NOW'
    /\ console' = <<>>
    /\ pc' = "rollover"
    /\ UNCHANGED <<AGE, FRAME, quoteVars>>
    /\ UNCHANGED <<clock, DATETIME, PERIOD, DIURNAL_EVENT, NEXT_MOON_EVENT,
                   MOON_RISEN, NEXT_SUN_EVENT, SUN_RISEN, LANDSCAPE_MODE, face, error,
                   tries, response>>

\* top of the loop body when no sync is due
TickNoSync ==
    /\ pc = "loop"
    /\ NOW' = clock
    /\ ~SyncDue(NOW', LAST_SYNC)
    /\ console' = <<>>
    /\ pc' = "rollover"
    /\ UNCHANGED <<AGE, FRAME, quoteVars>>
    /\ UNCHANGED <<clock, DATETIME, LAST_SYNC, PERIOD, DIURNAL_EVENT, NEXT_MOON_EVENT,
                   MOON_RISEN, NEXT_SUN_EVENT, SUN_RISEN, LANDSCAPE_MODE, face, error,
                   tries, response>>

\* TickSyncFetchRaises without the try/except around update_time
TickSyncFetchRaises_Uncaught ==
    /\ pc = "loop"
    /\ NOW' = clock
    /\ SyncDue(NOW', LAST_SYNC)
    /\ response' = [url |-> "worldtimeapi", status |-> "error"]
    /\ console' = <<"Syncing with time server">>
    /\ Raise("OSError")
    /\ UNCHANGED <<AGE, FRAME, quoteVars>>
    /\ UNCHANGED <<clock, DATETIME, LAST_SYNC, PERIOD, DIURNAL_EVENT, NEXT_MOON_EVENT,
                   MOON_RISEN, NEXT_SUN_EVENT, SUN_RISEN, LANDSCAPE_MODE, face,
                   tries>>

\* top of the loop body, sync due, fetch_data raises inside update_time
TickSyncFetchRaises ==
    /\ pc = "loop"
    /\ NOW' = clock
    /\ SyncDue(NOW', LAST_SYNC)
    /\ response' = [url |-> "worldtimeapi", status |-> "error"]
    /\ console' = <<"Syncing with time server", "Error syncing with time server: fetch_data">>
    /\ LAST_SYNC' = Backoff(LAST_SYNC)
    /\ pc' = "rollover"
    /\ UNCHANGED <<AGE, FRAME, quoteVars>>
    /\ UNCHANGED <<clock, DATETIME, PERIOD, DIURNAL_EVENT, NEXT_MOON_EVENT,
                   MOON_RISEN, NEXT_SUN_EVENT, SUN_RISEN, LANDSCAPE_MODE, face, error,
                   tries>>

\* top of the loop body, sync due, update_time sets the RTC and returns; the
\* assignment `DATETIME, UTC_OFFSET = update_time(TIMEZONE)` then unpacks the
\* returned value, and a ValueError from it lands in the same handler
TickSyncFetchReturns ==
    /\ pc = "loop"
    /\ NOW' = clock
    /\ SyncDue(NOW', LAST_SYNC)
    /\ \E skew \in Skews :
         LET value == update_time(timestring(clock + skew))
         IN /\ clock + skew <= MaxClock
            /\ response' = [url |-> "worldtimeapi", status |-> "ok"]
            /\ clock' = mktime(value)
            /\ IF CanUnpack(value, 2)
               THEN /\ DATETIME' = value[1]
                    /\ LAST_SYNC' = mktime(DATETIME')
                    /\ console' = <<"Syncing with time server">>
                    /\ pc' = "loop"
               ELSE /\ LAST_SYNC' = Backoff(LAST_SYNC)
                    /\ console' = <<"Syncing with time server",
                                    "Error syncing with time server: ValueError">>
                    /\ pc' = "rollover"
                    /\ UNCHANGED DATETIME
    /\ UNCHANGED <<AGE, FRAME, quoteVars>>
    /\ UNCHANGED <<PERIOD, DIURNAL_EVENT, NEXT_MOON_EVENT,
                   MOON_RISEN, NEXT_SUN_EVENT, SUN_RISEN, LANDSCAPE_MODE, face, error,
                   tries>>

\* `if NOW >= PERIOD[TOMORROW].midnight` when the test is false, or when
\* PERIOD[TOMORROW] has no midnight attribute
RolloverNotDue ==
    /\ pc = "rollover"
    /\ IF ~HasAttrs(PERIOD[TOMORROW])
       THEN Raise("AttributeError")
       ELSE /\ ~Expired(NOW, PERIOD)
            /\ pc' = "compute"
            /\ UNCHANGED error
    /\ console' = <<>>
    /\ UNCHANGED <<AGE, FRAME, quoteVars>>
    /\ UNCHANGED <<clock, DATETIME, LAST_SYNC, PERIOD, DIURNAL_EVENT, NOW, NEXT_MOON_EVENT,
                   MOON_RISEN, NEXT_SUN_EVENT, SUN_RISEN, LANDSCAPE_MODE, face,
                   tries, response>>

\* the rollover: PERIOD[TODAY] = PERIOD[TOMORROW], then the EarthData call
RolloverDue ==
    /\ pc = "rollover"
    /\ HasAttrs(PERIOD[TOMORROW])
    /\ Expired(NOW, PERIOD)
    /\ PERIOD' = [PERIOD EXCEPT ![TODAY] = PERIOD[TOMORROW]]
    /\ IF Len(RolloverArgs) = Len(InitParams)
       THEN /\ pc' = "fetch_rollover"
            /\ tries' = [tries EXCEPT !["fetch_rollover"] = 0]
            /\ UNCHANGED error
       ELSE /\ Raise("TypeError")
            /\ UNCHANGED tries
    /\ console' = <<>>
    /\ UNCHANGED <<AGE, FRAME, quoteVars>>
    /\ UNCHANGED <<clock, DATETIME, LAST_SYNC, DIURNAL_EVENT, NOW, NEXT_MOON_EVENT,
                   MOON_RISEN, NEXT_SUN_EVENT, SUN_RISEN, LANDSCAPE_MODE, face,
                   response>>

\* RATIO .. the layout choice (lines 379-439)
Compute ==
    /\ pc = "compute"
    /\ IF ~HasAttrs(PERIOD[TODAY]) \/ ~HasAttrs(PERIOD[TOMORROW])
       THEN /\ Raise("AttributeError")
            /\ UNCHANGED <<AGE, FRAME, NEXT_MOON_EVENT, MOON_RISEN, NEXT_SUN_EVENT, SUN_RISEN>>
       ELSE IF PERIOD[TOMORROW].midnight = PERIOD[TODAY].midnight
       THEN /\ Raise("ZeroDivisionError")
            /\ UNCHANGED <<AGE, FRAME, NEXT_MOON_EVENT, MOON_RISEN, NEXT_SUN_EVENT, SUN_RISEN>>
       ELSE LET age == Age(PERIOD[TODAY].age, PERIOD[TOMORROW].age,
                           NOW - PERIOD[TODAY].midnight,
                           PERIOD[TOMORROW].midnight - PERIOD[TODAY].midnight)
                moon == Scan(PERIOD, NOW, MOON_RISEN, "moonrise", "moonset")
                sun == Scan(PERIOD, NOW, SUN_RISEN, "sunrise", "sunset")
            IN /\ AGE' = age
               /\ FRAME' = Frame(age)
               /\ NEXT_MOON_EVENT' = moon.next
               /\ MOON_RISEN' = moon.risen
               /\ NEXT_SUN_EVENT' = sun.next
               /\ SUN_RISEN' = sun.risen
               /\ IF /\ ~LANDSCAPE_MODE
                     /\ \/ moon.risen = "unbound"
                        \/ moon.risen = "False" /\ sun.risen = "unbound"
                  THEN Raise("NameError")
                  ELSE pc' = "display" /\ UNCHANGED error
    /\ console' = <<>>
    /\ UNCHANGED quoteVars
    /\ UNCHANGED <<clock, DATETIME, LAST_SYNC, PERIOD, DIURNAL_EVENT, NOW,
                   LANDSCAPE_MODE, face, tries, response>>

\* the DIURNAL_EVENT dispatch: display_event, the counter's advance, and the
\* sleep that ends the loop body
Display ==
    /\ pc = "display"
    /\ clock + REFRESH_DELAY <= MaxClock
    /\ LET call == Dispatch(DIURNAL_EVENT, PERIOD)
           time_struct == IF call.event = None THEN localtime(clock)
                          ELSE localtime(call.event)
           hour_string == HourString(time_struct[4], ~LANDSCAPE_MODE)
       IN /\ console' = <<call.name>>
          /\ IF hour_string = None
             THEN /\ Raise("UnboundLocalError")
                  /\ face' = [face EXCEPT !.glyph = call.icon,
                                          !.body = IF StartsWithSun(call.name) THEN "Sun" ELSE "Moon"]
                  /\ UNCHANGED <<DIURNAL_EVENT, clock>>
             ELSE /\ face' = [glyph |-> call.icon,
                              body |-> IF StartsWithSun(call.name) THEN "Sun" ELSE "Moon",
                              text |-> <<hour_string, time_struct[5]>>]
                  /\ DIURNAL_EVENT' = NextSlot(DIURNAL_EVENT)
                  /\ clock' = clock + REFRESH_DELAY
                  /\ pc' = "loop"
                  /\ UNCHANGED error
    /\ UNCHANGED <<AGE, FRAME, quoteVars>>
    /\ UNCHANGED <<DATETIME, LAST_SYNC, PERIOD, NOW, NEXT_MOON_EVENT,
                   MOON_RISEN, NEXT_SUN_EVENT, SUN_RISEN, LANDSCAPE_MODE,
                   tries, response>>

Next ==
    \/ FetchAttemptReturns
    \/ FetchAttemptRaises
    \/ TickNoSync
    \/ TickSyncFetchRaises
    \/ TickSyncFetchReturns
    \/ RolloverNotDue
    \/ RolloverDue
    \/ Compute
    \/ Display

Spec == Init /\ [][Next]_vars

\* the script keeps running until it ends
FairSpec == Spec /\ WF_vars(Next)

\* ---- the first loop body on any window ----

\* the midnight of the day on which the loop body is observed
Day1 == SECONDS_PER_DAY

\* rise/set times the service can report for a day starting at midnight
TimesOfDay(midnight) == {None, midnight + 6 * 3600, midnight + 23 * 3600 + 1800}

\* hundredths the service can report as the moon phase
AgeSamples == {0, 1, 50, 98, 99}

\* the sun's (today rise, today set, tomorrow rise, tomorrow set): polar
\* night, an ordinary pair of days, and a sun that returns tomorrow
SunSamples ==
    { <<None, None, None, None>>,
      <<Day1 + 7 * 3600, Day1 + 17 * 3600,
        Day1 + SECONDS_PER_DAY + 7 * 3600, Day1 + SECONDS_PER_DAY + 17 * 3600>>,
      <<None, None, Day1 + SECONDS_PER_DAY + 11 * 3600, Day1 + SECONDS_PER_DAY + 12 * 3600>> }

\* windows that differ in the rise/set times, and windows that differ in
\* the ages
Windows ==
    { [i \in {TODAY, TOMORROW} |->
         IF i = TODAY THEN EarthData(97, Day1, sun[1], sun[2], r0, s0)
         ELSE EarthData(2, Day1 + SECONDS_PER_DAY, sun[3], sun[4], r1, s1)] :
      sun \in SunSamples, r0 \in TimesOfDay(Day1), s0 \in TimesOfDay(Day1),
      r1 \in TimesOfDay(Day1 + SECONDS_PER_DAY), s1 \in TimesOfDay(Day1 + SECONDS_PER_DAY) }
    \cup
    { [i \in {TODAY, TOMORROW} |->
         IF i = TODAY THEN EarthData(a0, Day1, Day1 + 7 * 3600, Day1 + 17 * 3600,
                                     Day1 + 6 * 3600, Day1 + 23 * 3600 + 1800)
         ELSE EarthData(a1, Day1 + SECONDS_PER_DAY, None, None, None, None)] :
      a0 \in AgeSamples, a1 \in AgeSamples }

\* the instant at which today ends and tomorrow starts
Tie == Day1 + SECONDS_PER_DAY

\* windows in which the records of both days can report the same instant
TieWindows ==
    { [i \in {TODAY, TOMORROW} |->
         IF i = TODAY THEN EarthData(97, Day1, Day1 + 7 * 3600, Tie, r0, s0)
         ELSE EarthData(2, Tie, Tie, Tie + 17 * 3600, r1, s1)] :
      r0 \in {None, Day1 + 6 * 3600, Tie}, s0 \in {None, Day1 + 6 * 3600, Tie},
      r1 \in {None, Tie, Tie + 6 * 3600}, s1 \in {None, Tie, Tie + 6 * 3600} }

\* the times of day at which the board can reach its first loop body
FirstTicks == {Day1, Day1 + 1, Day1 + 6 * 3600, Day1 + 12 * 3600,
               Day1 + 23 * 3600 + 1810, Day1 + SECONDS_PER_DAY - 1}

\* the first loop body has passed its sync and rollover checks
ComputeInit ==
    /\ NOW \in FirstTicks
    /\ clock = NOW
    /\ DATETIME = localtime(Day1)
    /\ LAST_SYNC = mktime(DATETIME)
    /\ PERIOD \in Windows \cup TieWindows
    /\ DIURNAL_EVENT = 8
    /\ AGE = [num |-> None, den |-> None]
    /\ FRAME = None
    /\ NEXT_MOON_EVENT = None /\ MOON_RISEN = "unbound"
    /\ NEXT_SUN_EVENT = None /\ SUN_RISEN = "unbound"
    /\ LANDSCAPE_MODE \in BOOLEAN
    /\ face = [glyph |-> "x", body |-> "none", text |-> <<12, 0>>]
    /\ pc = "compute"
    /\ error = "none"
    /\ tries = [s \in FetchSites |-> IF s = "fetch_rollover" THEN 0 ELSE 1]
    /\ response = [url |-> "sunrise", status |-> "ok"]
    /\ console = <<>>
    /\ QuoteBoardOff

ComputeSpec == ComputeInit /\ [][Compute]_vars

\* ---- the quote board ----

UPDATE_DELAY == 1
quotes == <<"This is a test of the emergency broadcast system...", "OH HAI!", "wtf", "lol">>
colors == <<16753920, 32768, 255, 4915330, 15631086>>

\* the run is cut off when time.monotonic() would pass MaxMonotonic
MaxMonotonic == 8
\* seconds one scroll_text call can take
ScrollTimes == {1, 2}

\* random.randrange(0, n)
randrange(n) == 0..(n - 1)

\* the moon clock's script is not running
ClockOff ==
    /\ clock = 0 /\ NOW = 0 /\ LAST_SYNC = 0
    /\ DATETIME = localtime(0)
    /\ PERIOD = [i \in {TODAY, TOMORROW} |-> NoneEntry]
    /\ DIURNAL_EVENT = 8
    /\ AGE = [num |-> None, den |-> None]
    /\ FRAME = None
    /\ NEXT_MOON_EVENT = None /\ MOON_RISEN = "unbound"
    /\ NEXT_SUN_EVENT = None /\ SUN_RISEN = "unbound"
    /\ LANDSCAPE_MODE = TRUE
    /\ face = [glyph |-> "x", body |-> "none", text |-> <<12, 0>>]
    /\ pc = "off"
    /\ error = "none"
    /\ tries = [s \in FetchSites |-> 0]
    /\ response = [url |-> "none", status |-> "none"]
    /\ console = <<>>

QuoteInit ==
    /\ quote_index \in randrange(Len(quotes))
    /\ color_index \in randrange(Len(colors))
    /\ last_color_index = 0
    /\ last_quote_index = 0
    /\ monotonic = 0
    /\ last_update = monotonic
    /\ board = [text |-> " ", color |-> "default"]
    /\ ClockOff

\* `while index == last_index: index = random.randrange(0, n)`: the values
\* the loop can end with
Reroll(index, last_index, n) ==
    IF index = last_index THEN randrange(n) \ {last_index} ELSE {index}

\* one pass of the loop that shows the quote and finds the update not due
QuoteShow ==
    /\ \E scroll \in ScrollTimes :
         /\ monotonic + scroll <= MaxMonotonic
         /\ monotonic' = monotonic + scroll
    /\ board' = [text |-> quotes[quote_index + 1], color |-> colors[color_index + 1]]
    /\ ~(monotonic' > last_update + UPDATE_DELAY)
    /\ UNCHANGED <<quote_index, color_index, last_quote_index, last_color_index, last_update>>
    /\ UNCHANGED clockVars

\* one pass of the loop that shows the quote and then picks the next one
QuoteUpdate ==
    /\ \E scroll \in ScrollTimes :
         /\ monotonic + scroll <= MaxMonotonic
         /\ monotonic' = monotonic + scroll
    /\ board' = [text |-> quotes[quote_index + 1], color |-> colors[color_index + 1]]
    /\ monotonic' > last_update + UPDATE_DELAY
    /\ last_update' = monotonic'
    /\ quote_index' \in Reroll(quote_index, last_quote_index, Len(quotes))
    /\ last_quote_index' = quote_index'
    /\ color_index' \in Reroll(color_index, last_color_index, Len(colors))
    /\ last_color_index' = color_index'
    /\ UNCHANGED clockVars

QuoteNext == QuoteShow \/ QuoteUpdate

QuoteSpec == QuoteInit /\ [][QuoteNext]_vars

\* ---- properties ----

\* the 8 values the counter takes in n consecutive advances from d
RECURSIVE Advances(_, _)
Advances(d, n) == IF n = 0 THEN <<>> ELSE <<NextSlot(d)>> \o Advances(NextSlot(d), n - 1)

\* the fixed descending order, entered after d
Descending(d) == [i \in 1..8 |-> ((d - 1 - i) % 8) + 1]

\* C1: DIURNAL_EVENT is always in 1..8; from its current value 8 consecutive
\* advances visit every slot exactly once, in the order 8,7,...,1 with 1
\* wrapping to 8, and end on the starting value; every change of the counter
\* is one such advance.
C1_RotationCycle ==
    /\ [](/\ DIURNAL_EVENT \in 1..8
          /\ Advances(DIURNAL_EVENT, 8) = Descending(DIURNAL_EVENT)
          /\ Advances(DIURNAL_EVENT, 8)[8] = DIURNAL_EVENT
          /\ {Advances(DIURNAL_EVENT, 8)[i] : i \in 1..8} = 1..8)
    /\ [][DIURNAL_EVENT' # DIURNAL_EVENT =>
            DIURNAL_EVENT' = (IF DIURNAL_EVENT = 1 THEN 8 ELSE DIURNAL_EVENT - 1)]_vars

\* the counter is back at 8 after the last slot (tomorrow's moonset) was shown
C1_Witness ==
    /\ pc = "loop"
    /\ DIURNAL_EVENT = 8
    /\ face.glyph = TOMORROW_SET
    /\ face.body = "Moon"

\* a step of the loop's top in which update_time was called and fetch_data raised
SyncAttemptFailed ==
    /\ pc = "loop"
    /\ console' # <<>>
    /\ response' = [url |-> "worldtimeapi", status |-> "error"]

\* a step of the loop's top in which update_time was called and fetch_data
\* answered
SyncAttemptFetched ==
    /\ pc = "loop"
    /\ console' # <<>>
    /\ response' = [url |-> "worldtimeapi", status |-> "ok"]

\* C2: a failed sync attempt advances LAST_SYNC by a positive amount that is
\* strictly smaller than the sync interval.
C2_BackoffBelowInterval ==
    [][SyncAttemptFailed =>
         /\ LAST_SYNC' > LAST_SYNC
         /\ LAST_SYNC' - LAST_SYNC < HOURS_BETWEEN_SYNC * 3600]_vars

\* C3: when the time fetch of a due sync succeeds, LAST_SYNC becomes the
\* newly set time and the loop body restarts; no backoff is applied.
C3_SuccessSetsLastSync ==
    [][SyncAttemptFetched =>
         /\ LAST_SYNC' = clock'
         /\ pc' = "loop"]_vars

\* C4: the step that tests NOW >= PERIOD[TOMORROW].midnight on a complete
\* tomorrow record rolls the window over when the test holds (equality
\* included), going on to fetch the new tomorrow, and leaves the window
\* alone when it does not; the fetch of a rollover ends with a newly fetched
\* record installed as tomorrow.
C4_RolloverInclusive ==
    /\ [][(pc = "rollover" /\ PERIOD[TOMORROW].tag = "EarthData") =>
            IF NOW >= PERIOD[TOMORROW].midnight
            THEN /\ PERIOD'[TODAY] = PERIOD[TOMORROW]
                 /\ pc' = "fetch_rollover"
                 /\ error' = "none"
            ELSE PERIOD' = PERIOD /\ pc' = "compute"]_vars
    /\ [][(pc = "fetch_rollover" /\ pc' = "compute") =>
            /\ PERIOD'[TOMORROW].tag = "EarthData"
            /\ PERIOD'[TOMORROW].midnight = PERIOD'[TODAY].midnight + 86400]_vars

\* C5: at the top of every loop body the window holds two complete records
\* one day apart.
C5_WindowInvariant ==
    pc = "loop" =>
        /\ PERIOD[TODAY].tag = "EarthData"
        /\ PERIOD[TOMORROW].tag = "EarthData"
        /\ PERIOD[TOMORROW].midnight = PERIOD[TODAY].midnight + 86400

\* C7: no EarthData call returns an object whose attributes are unset: the
\* window never holds one.
C7_ExhaustionSurfaced ==
    \A i \in {TODAY, TOMORROW} : PERIOD[i].tag # "bare"

\* a step of a retry loop is one more attempt of that loop alone; a successful
\* attempt leaves the loop without waiting, a failed one waits the fixed delay
RetryStep ==
    pc \in FetchSites =>
        /\ tries'[pc] = tries[pc] + 1
        /\ \A s \in FetchSites \ {pc} : tries'[s] = tries[s]
        /\ (response'.status = "ok") => (pc' # pc /\ clock' = clock)
        /\ (response'.status = "error") => (clock' = clock + 15)
        /\ (pc' = pc) => (response'.status = "error")

\* outside the retry loops no attempt is made
NoAttemptOutsideFetch ==
    (pc \notin FetchSites /\ pc' \notin FetchSites) => tries' = tries

\* C8: a fetch makes between one and five attempts, each step of the retry
\* loop is one more attempt, a successful attempt leaves the loop, the clock
\* moves by the fixed delay exactly in the failed attempts, and every fetch
\* comes to an end.
C8_BoundedRetry ==
    /\ [](/\ \A s \in FetchSites : tries[s] \in 0..5
          /\ (pc # "fetch_today") => (tries["fetch_today"] \in 1..5)
          /\ (pc \notin {"fetch_today", "fetch_tomorrow"}) => (tries["fetch_tomorrow"] \in 1..5))
    /\ [][RetryStep]_vars
    /\ [][NoAttemptOutsideFetch]_vars
    /\ \A s \in FetchSites : (pc = s) ~> (pc # s)

\* today's fetch gave up after five failures and tomorrow's succeeded at its
\* second attempt
C8_Witness ==
    /\ pc = "loop"
    /\ tries["fetch_today"] = 5
    /\ PERIOD[TODAY].tag = "bare"
    /\ tries["fetch_tomorrow"] = 2
    /\ PERIOD[TOMORROW].tag = "EarthData"

\* the handler of a failed sync attempt
SyncFailureStep ==
    SyncAttemptFailed =>
        /\ pc' = "rollover"
        /\ error' = "none"
        /\ NOW' = clock
        /\ LAST_SYNC' # LAST_SYNC
        /\ UNCHANGED <<clock, PERIOD, DIURNAL_EVENT>>

\* the steps of the loop body after its top follow each other in order, on
\* the same NOW, unless one of them ends the script
RestOfTick ==
    /\ (pc \in {"rollover", "compute", "display"}) => (NOW' = NOW)
    /\ (pc = "rollover") => (pc' \in {"compute", "fetch_rollover", "crashed"})
    /\ (pc = "compute") => (pc' \in {"display", "crashed"})
    /\ (pc = "display") => (pc' \in {"loop", "crashed"})

\* C9: a failed sync attempt does not end the script: the step changes
\* LAST_SYNC, leaves the clock, the window and the rotation counter alone
\* and goes on to the rollover check; the rest of the loop body runs its
\* steps in order on the time read before the attempt.
C9_SyncFailureNotFatal ==
    /\ [][SyncFailureStep]_vars
    /\ [][RestOfTick]_vars

\* the state right after the handler of a failed sync attempt
C9_Witness ==
    /\ pc = "rollover"
    /\ console = <<"Syncing with time server", "Error syncing with time server: fetch_data">>
    /\ error = "none"

\* C10: at the top of each loop body a sync is attempted exactly when
\* NOW - LAST_SYNC is strictly greater than HOURS_BETWEEN_SYNC * 3600.
C10_SyncDueStrict ==
    [][pc = "loop" =>
         ((console' # <<>> /\ console'[1] = "Syncing with time server")
            <=> NOW' - LAST_SYNC > HOURS_BETWEEN_SYNC * 3600)]_vars

\* a loop body that started at exactly one sync interval after LAST_SYNC
\* went on without a sync attempt
C10_Witness ==
    /\ pc = "rollover"
    /\ NOW - LAST_SYNC = HOURS_BETWEEN_SYNC * 3600
    /\ console = <<>>

\* C11: a slot whose timestamp is absent is skipped: its display step shows
\* no event name, glyph or time text and raises nothing, and the counter
\* advances by one all the same.
C11_AbsentSlotSkipped ==
    [][ (pc = "display" /\ Dispatch(DIURNAL_EVENT, PERIOD).event = None)
          => (/\ face' = face
              /\ console' = <<>>
              /\ error' = "none"
              /\ DIURNAL_EVENT' = NextSlot(DIURNAL_EVENT)) ]_vars

\* the loop body has run its next-event selection
Selected == pc = "display" \/ error = "NameError"

\* a body's timestamps of the window that are present and not before NOW
Candidates(rise, set) ==
    { t \in { PERIOD[i][f] : i \in {TODAY, TOMORROW}, f \in {rise, set} } :
        t # None /\ t >= NOW }

Earliest(S) == CHOOSE t \in S : \A u \in S : t <= u

\* C12: for each body, when one of its four timestamps is present and not
\* before NOW, the selected next event is the smallest such timestamp.
C12_NextIsEarliest ==
    Selected =>
        /\ (Candidates("moonrise", "moonset") # {}
              => NEXT_MOON_EVENT = Earliest(Candidates("moonrise", "moonset")))
        /\ (Candidates("sunrise", "sunset") # {}
              => NEXT_SUN_EVENT = Earliest(Candidates("sunrise", "sunset")))

\* the moon's two rise times are past or absent, the sets of both days are
\* candidates and today's is picked
C12_Witness ==
    /\ pc = "display"
    /\ PERIOD[TODAY].moonrise # None /\ PERIOD[TODAY].moonrise < NOW
    /\ PERIOD[TODAY].moonset # None /\ PERIOD[TODAY].moonset > NOW
    /\ PERIOD[TOMORROW].moonrise # None
    /\ PERIOD[TOMORROW].moonset # None
    /\ NEXT_MOON_EVENT = PERIOD[TODAY].moonset
    /\ NEXT_SUN_EVENT = PERIOD[TOMORROW].sunrise

\* the flag agrees with the kind of the event picked among the body's times
RisenMatches(risen, next, rise, set) ==
    \/ risen = "False" /\ next \in {PERIOD[TODAY][rise], PERIOD[TOMORROW][rise]}
    \/ risen = "True" /\ next \in {PERIOD[TODAY][set], PERIOD[TOMORROW][set]}

\* C13: when an event is selected for a body, its risen flag is assigned in
\* that loop body: false if the picked event is a rise, true if it is a set.
C13_RisenMatchesEvent ==
    Selected =>
        /\ (Candidates("moonrise", "moonset") # {}
              => RisenMatches(MOON_RISEN, NEXT_MOON_EVENT, "moonrise", "moonset"))
        /\ (Candidates("sunrise", "sunset") # {}
              => RisenMatches(SUN_RISEN, NEXT_SUN_EVENT, "sunrise", "sunset"))

\* the moon's next event is tomorrow's rise, the sun's is today's set
C13_Witness ==
    /\ pc = "display"
    /\ MOON_RISEN = "False"
    /\ NEXT_MOON_EVENT = PERIOD[TOMORROW].moonrise
    /\ PERIOD[TOMORROW].moonset # None
    /\ SUN_RISEN = "True"
    /\ NEXT_SUN_EVENT = PERIOD[TODAY].sunset

\* C14: when a body has no timestamp that is present and not before NOW, the
\* loop body reports "no event" for it without raising: no timestamp is
\* left as its next event and its risen flag is not an unassigned name; and
\* "no event" is reported in no other case.
C14_NoEventReported ==
    /\ error # "NameError"
    /\ (pc = "display") =>
         (/\ (NEXT_MOON_EVENT = None) = (Candidates("moonrise", "moonset") = {})
          /\ (NEXT_SUN_EVENT = None) = (Candidates("sunrise", "sunset") = {})
          /\ MOON_RISEN # "unbound"
          /\ SUN_RISEN # "unbound")

\* C15: with both ages in [0, 1) and NOW inside the window, AGE is in [0, 1)
\* and FRAME is floor(AGE * 100), an index in 0..99.
C15_AgeAndFrameInRange ==
    Selected =>
        /\ 0 <= AGE.num /\ AGE.num < AGE.den
        /\ FRAME \in 0..99
        /\ FRAME * AGE.den <= 100 * AGE.num
        /\ 100 * AGE.num < (FRAME + 1) * AGE.den

\* the last second of a day over which the age wraps from 0.99 to 0.01
C15_Witness ==
    /\ pc = "display"
    /\ PERIOD[TODAY].age = 99
    /\ PERIOD[TOMORROW].age = 1
    /\ NOW = PERIOD[TOMORROW].midnight - 1
    /\ FRAME = 0

\* AGE as the interpolation from today's age towards `target`
Interpolated(target) ==
    LET length == PERIOD[TOMORROW].midnight - PERIOD[TODAY].midnight
    IN AGE.num = (PERIOD[TODAY].age * length
                  + (target - PERIOD[TODAY].age) * (NOW - PERIOD[TODAY].midnight))
                 % (100 * length)

\* C16: the age of tomorrow is raised by 1 only when it is below today's;
\* when it is greater or equal the interpolation is direct, so equal ages give
\* AGE equal to today's age.
C16_WrapOnlyWhenBelow ==
    Selected =>
        IF PERIOD[TOMORROW].age < PERIOD[TODAY].age
        THEN Interpolated(PERIOD[TOMORROW].age + 100)
        ELSE Interpolated(PERIOD[TOMORROW].age)

\* C17: an update of the quote board never leaves the quote that was shown
\* before it, the first update included, whatever the initial quote_index.
C17_NoConsecutiveRepeat ==
    [][ last_update' # last_update => quote_index' # quote_index ]_vars

\* the window's field that each value of the counter stands for
SlotDay(d) == IF d >= 5 THEN TODAY ELSE TOMORROW
SlotField(d) ==
    CASE d \in {8, 4} -> "sunrise"
      [] d \in {7, 3} -> "sunset"
      [] d \in {6, 2} -> "moonrise"
      [] d \in {5, 1} -> "moonset"
SlotName(d) ==
    CASE d = 8 -> "Sunrise today" [] d = 7 -> "Sunset today"
      [] d = 6 -> "Moonrise today" [] d = 5 -> "Moonset today"
      [] d = 4 -> "Sunrise tomorrow" [] d = 3 -> "Sunset tomorrow"
      [] d = 2 -> "Moonrise tomorrow" [] d = 1 -> "Moonset tomorrow"

\* a display step names the slot's event and, when it shows a time, shows
\* the time of the slot's field of the window as it is at that step
SlotShown ==
    pc = "display" =>
        LET ts == PERIOD[SlotDay(DIURNAL_EVENT)][SlotField(DIURNAL_EVENT)]
        IN /\ console' = <<SlotName(DIURNAL_EVENT)>>
           /\ face'.body = (IF SlotField(DIURNAL_EVENT) \in {"sunrise", "sunset"}
                            THEN "Sun" ELSE "Moon")
           /\ (ts # None /\ error' = "none")
                => /\ face'.text[2] = localtime(ts)[5]
                   /\ face'.text[1] \in {localtime(ts)[4], localtime(ts)[4] - 12}

\* C18: the counter starts at 8, and its values stand for 8 today's sunrise,
\* 7 today's sunset, 6 today's moonrise, 5 today's moonset, 4 tomorrow's
\* sunrise, 3 tomorrow's sunset, 2 tomorrow's moonrise, 1 tomorrow's moonset,
\* the timestamp being read from the window at that step.
C18_SlotBindings ==
    /\ DIURNAL_EVENT = 8
    /\ [][SlotShown]_vars

\* slot 2 has shown tomorrow's moonrise of 09:00
C18_Witness ==
    /\ pc = "loop"
    /\ DIURNAL_EVENT = 1
    /\ console = <<"Moonrise tomorrow">>
    /\ PERIOD[TOMORROW].moonrise # None
    /\ face.text = <<localtime(PERIOD[TOMORROW].moonrise)[4], localtime(PERIOD[TOMORROW].moonrise)[5]>>
    /\ face.body = "Moon"

\* the steps of a loop body follow in order and the last advances the counter
TickOrder ==
    /\ pc = "loop" => pc' \in {"loop", "rollover"}
    /\ pc = "rollover" => pc' \in {"compute", "fetch_rollover"}
    /\ pc = "compute" => pc' = "display"
    /\ pc = "display" => pc' = "loop" /\ DIURNAL_EVENT' = NextSlot(DIURNAL_EVENT)
    /\ pc # "display" => DIURNAL_EVENT' = DIURNAL_EVENT

\* C19: a loop body runs the sync check, the rollover, the interpolation,
\* the selection and the counter's advance in this order; a body that is not
\* restarted by a sync advances the counter exactly once.
C19_TickOrder == [][TickOrder]_vars

\* C20: whenever the interpolation and the selection run, NOW lies in the
\* window: PERIOD[TODAY].midnight <= NOW < PERIOD[TOMORROW].midnight.
C20_NowInsideWindow ==
    Selected =>
        /\ PERIOD[TODAY].midnight <= NOW
        /\ NOW < PERIOD[TOMORROW].midnight

\* the flag is the one of today's record for the event at instant t
TodayWins(risen, t, rise, set) ==
    \/ risen = "False" /\ PERIOD[TODAY][rise] = t
    \/ risen = "True" /\ PERIOD[TODAY][set] = t

\* the nearest timestamp not before NOW is reported by both days' records
TiedAcrossDays(rise, set) ==
    /\ Candidates(rise, set) # {}
    /\ Earliest(Candidates(rise, set)) \in {PERIOD[TODAY][rise], PERIOD[TODAY][set]}
    /\ Earliest(Candidates(rise, set)) \in {PERIOD[TOMORROW][rise], PERIOD[TOMORROW][set]}

\* C21: when a timestamp of today's record and one of tomorrow's record for
\* the same body are equal and are the nearest value >= NOW, the selected
\* event and the risen flag are those of today's record.
C21_TodayWinsTie ==
    Selected =>
        /\ TiedAcrossDays("moonrise", "moonset")
             => /\ NEXT_MOON_EVENT = Earliest(Candidates("moonrise", "moonset"))
                /\ TodayWins(MOON_RISEN, NEXT_MOON_EVENT, "moonrise", "moonset")
        /\ TiedAcrossDays("sunrise", "sunset")
             => /\ NEXT_SUN_EVENT = Earliest(Candidates("sunrise", "sunset"))
                /\ TodayWins(SUN_RISEN, NEXT_SUN_EVENT, "sunrise", "sunset")

\* today's moonset and tomorrow's moonrise are the same instant: the flag is
\* the one of today's set
C21_Witness ==
    /\ pc = "display"
    /\ PERIOD[TODAY].moonset = Tie
    /\ PERIOD[TOMORROW].moonrise = Tie
    /\ PERIOD[TODAY].moonrise # Tie
    /\ PERIOD[TOMORROW].moonset # Tie
    /\ NEXT_MOON_EVENT = Tie
    /\ MOON_RISEN = "True"

\* the display step of a slot whose timestamp is present shows its hour and
\* minute and goes on to the counter's advance
PresentSlotShown ==
    LET ts == PERIOD[SlotDay(DIURNAL_EVENT)][SlotField(DIURNAL_EVENT)]
    IN (pc = "display" /\ ts # None)
         => /\ error' = "none"
            /\ face'.text[1] \in {localtime(ts)[4], localtime(ts)[4] - 12}
            /\ face'.text[2] = localtime(ts)[5]
            /\ DIURNAL_EVENT' = NextSlot(DIURNAL_EVENT)

\* C22: for a slot whose timestamp is present, display_event produces an
\* hour:minute text for every local hour 0..23 in portrait and in landscape
\* mode without raising, so the counter's advance after it is reached.
C22_EveryHourDisplayed == [][PresentSlotShown]_vars

\* a step of the loop's top that found the sync due and called update_time
SyncAttempt ==
    /\ pc = "loop"
    /\ SyncDue(NOW', LAST_SYNC)
    /\ console'[1] = "Syncing with time server"
    /\ response'.url = "worldtimeapi"

\* LAST_SYNC changes in sync attempts only
LastSyncFrame ==
    /\ LAST_SYNC' # LAST_SYNC => SyncAttempt
    /\ (pc # "loop" \/ ~SyncDue(NOW', LAST_SYNC)) => LAST_SYNC' = LAST_SYNC

\* C23: LAST_SYNC is changed only by a sync attempt; loop bodies in which no
\* sync is due, the rollover, the interpolation, the event selection and the
\* counter's advance all leave it unchanged.
C23_LastSyncFrame == [][LastSyncFrame]_vars

\* a sync attempt has moved LAST_SYNC, and a whole loop body has run after it
\* without moving it again
C23_Witness ==
    /\ pc = "loop"
    /\ LAST_SYNC # mktime(DATETIME)
    /\ LAST_SYNC - clock > HOURS_BETWEEN_SYNC * SECONDS_PER_HOUR
    /\ console # <<>>
    /\ DIURNAL_EVENT # 8

====
